---- MODULE Spec2Model ----
(***************************************************************************)
(* Model of the IKEA browser add-on: the HTTP wrapper with its on-disk     *)
(* cache (ikea_lib.py, IkeaApiWrapper) and the add-on's handlers           *)
(* (__init__.py: search update, panel draws, import operator).             *)
(***************************************************************************)
EXTENDS Integers, Sequences, FiniteSets, TLC

VARIABLES
    online,          \* bpy.app.online_access
    country,         \* ikea.country / ikea.language of the global wrapper
    cache,           \* files under cache_dir: cache[itemNo][file]
    thumbs,          \* preview collection: item numbers already loaded
    search_results,  \* the global list search_results
    objs,            \* bpy.data.objects: name -> object
    active,          \* the name of bpy.context.object ("": none)
    ev,              \* observation of the last wrapper call
    memo,            \* history: first successful result per item and file
    hv               \* observation of the last add-on handler run

vars == <<online, country, cache, thumbs, search_results, objs, active,
          ev, memo, hv>>

----------------------------------------------------------------------------
(* Inputs *)

Items == {"i1", "i2"}
Countries == {"ie", "se"}
Urls == {"u1", "u2"}
Files == {"pip", "thumbnail", "model"}

\* Longest search response (number of products) that is enumerated.
MaxResults == 2

----------------------------------------------------------------------------
(* HTTP responses and file contents *)

HttpError == [st |-> "error"]
HttpOk(b) == [st |-> "ok", body |-> b]
\* A body that is JSON text for the value v, as json.dumps writes it.
JsonText(v) == [json |-> TRUE, val |-> v]
\* A body that is no JSON document (an HTML error page, image bytes).
RawBytes(tag) == [json |-> FALSE, val |-> [bytes |-> tag]]

Absent == [st |-> "absent"]
Partial == [st |-> "partial"]
FileOf(d) == [st |-> "file", data |-> d]

NoRet == [none |-> TRUE]

\* json.loads / json.dumps
Decodes(text) == text.json
Loads(text) == text.val
Dumps(v) == JsonText(v)

CacheFileName(f) ==
    CASE f = "pip" -> "pip.json"
      [] f = "thumbnail" -> "thumbnail.jpg"
      [] f = "model" -> "model.glb"

CachePath(itemNo, f) == "cache/" \o itemNo \o "/" \o CacheFileName(f)

Exists(c, itemNo, f) == c[itemNo][f].st # "absent"

\* The result of one wrapper call.
Result(c, reqs, exc, cause, ret) ==
    [cache |-> c, reqs |-> reqs, exc |-> exc, cause |-> cause, ret |-> ret]

\* cache_path.parent.mkdir(...); cache_path.write_*(data), then the rest.
\* fs is what the file system does: "ok", "mkdirfail" or "writefail" (the
\* file was opened for writing, so it exists, and the write stopped).
WriteFile(c, itemNo, f, data, fs) ==
    CASE fs = "ok" -> [c EXCEPT ![itemNo][f] = FileOf(data)]
      [] fs = "writefail" -> [c EXCEPT ![itemNo][f] = Partial]
      [] OTHER -> c

FsOutcomes == {"ok", "mkdirfail", "writefail"}

----------------------------------------------------------------------------
(* IkeaApiWrapper.get_pip *)

PipData(ctry, itemNo) ==
    [name |-> IF itemNo = "i1" THEN "A" ELSE "A (2)", locale |-> ctry,
     mainImage |-> "u2"]

PipResps(ctry, itemNo) ==
    {HttpError, HttpOk(RawBytes("html")), HttpOk(JsonText(PipData(ctry, itemNo)))}

\* json.loads(cache_path.read_text()), outside the try block.
ReadPip(c, itemNo, reqs) ==
    LET file == c[itemNo]["pip"] IN
    IF file.st = "file" /\ Decodes(file.data)
    THEN Result(c, reqs, "none", "none", [dict |-> Loads(file.data)])
    ELSE Result(c, reqs, "JSONDecodeError", "read", NoRet)

\* Mutant: an entry cached under another locale counts as a miss.
GetPipLocaleKeyed(c, itemNo, resp, fs) ==
    IF \/ ~Exists(c, itemNo, "pip")
       \/ /\ c[itemNo]["pip"].st = "file"
          /\ Loads(c[itemNo]["pip"].data).locale # country
    THEN IF resp.st # "ok"
         THEN Result(c, <<"pip">>, "IkeaException", "request", NoRet)
         ELSE IF ~Decodes(resp.body)
         THEN Result(c, <<"pip">>, "IkeaException", "decode", NoRet)
         ELSE ReadPip(WriteFile(c, itemNo, "pip", Dumps(Loads(resp.body)), "ok"),
                      itemNo, <<"pip">>)
    ELSE ReadPip(c, itemNo, <<>>)

GetPip(c, itemNo, resp, fs) ==
    IF ~Exists(c, itemNo, "pip")
    THEN IF resp.st # "ok"
         THEN Result(c, <<"pip">>, "IkeaException", "request", NoRet)
         ELSE IF ~Decodes(resp.body)
         THEN Result(c, <<"pip">>, "IkeaException", "decode", NoRet)
         ELSE IF fs # "ok"
         THEN Result(WriteFile(c, itemNo, "pip", Dumps(Loads(resp.body)), fs),
                     <<"pip">>, "IkeaException", fs, NoRet)
         ELSE ReadPip(WriteFile(c, itemNo, "pip", Dumps(Loads(resp.body)), fs),
                      itemNo, <<"pip">>)
    ELSE ReadPip(c, itemNo, <<>>)

----------------------------------------------------------------------------
(* IkeaApiWrapper.get_thumbnail *)

ThumbResps(url) == {HttpError, HttpOk(RawBytes(url))}

\* Mutant: the existence test of the cache file is dropped.
GetThumbnailAlwaysFetch(c, itemNo, resp, fs) ==
    IF resp.st # "ok"
    THEN Result(c, <<"thumbnail">>, "IkeaException", "request", NoRet)
    ELSE Result(WriteFile(c, itemNo, "thumbnail", resp.body, "ok"),
                <<"thumbnail">>, "none", "none",
                [path |-> CachePath(itemNo, "thumbnail")])

GetThumbnail(c, itemNo, resp, fs) ==
    IF ~Exists(c, itemNo, "thumbnail")
    THEN IF resp.st # "ok"
         THEN Result(c, <<"thumbnail">>, "IkeaException", "request", NoRet)
         ELSE IF fs # "ok"
         THEN Result(WriteFile(c, itemNo, "thumbnail", resp.body, fs),
                     <<"thumbnail">>, "IkeaException", fs, NoRet)
         ELSE Result(WriteFile(c, itemNo, "thumbnail", resp.body, fs),
                     <<"thumbnail">>, "none", "none",
                     [path |-> CachePath(itemNo, "thumbnail")])
    ELSE Result(c, <<>>, "none", "none", [path |-> CachePath(itemNo, "thumbnail")])

----------------------------------------------------------------------------
(* IkeaApiWrapper.get_model *)

ExistsResps ==
    {HttpError, HttpOk(RawBytes("html")), HttpOk(JsonText([exists |-> TRUE])),
     HttpOk(JsonText([exists |-> FALSE])), HttpOk(JsonText([message |-> "x"]))}

MetaResps(itemNo) ==
    {HttpError, HttpOk(RawBytes("html")),
     HttpOk(JsonText([modelUrl |-> "glb/" \o itemNo])),
     HttpOk(JsonText([message |-> "x"]))}

BinResps(itemNo) == {HttpError, HttpOk(RawBytes("glb/" \o itemNo))}

\* self._get_json(url) followed by the read of one key, inside the try block:
\* "request", "decode", "key" or "none".
JsonKeyFailure(resp, key) ==
    IF resp.st # "ok" THEN "request"
    ELSE IF ~Decodes(resp.body) THEN "decode"
    ELSE IF key \notin DOMAIN Loads(resp.body) THEN "key"
    ELSE "none"

\* Mutant: the cache file is opened for writing before the binary is fetched.
DownloadModelOpenFirst(c, itemNo, rMeta, rBin, fs) ==
    LET r2 == <<"rotera/exists", "rotera/model">>
        r3 == <<"rotera/exists", "rotera/model", "modelUrl">> IN
    IF JsonKeyFailure(rMeta, "modelUrl") # "none"
    THEN Result(c, r2, "IkeaException", JsonKeyFailure(rMeta, "modelUrl"), NoRet)
    ELSE IF rBin.st # "ok"
    THEN Result(WriteFile(c, itemNo, "model", rBin, "writefail"), r3,
                "IkeaException", "request", NoRet)
    ELSE Result(WriteFile(c, itemNo, "model", rBin.body, fs), r3,
                IF fs = "ok" THEN "none" ELSE "IkeaException",
                IF fs = "ok" THEN "none" ELSE fs,
                IF fs = "ok" THEN [path |-> CachePath(itemNo, "model")] ELSE NoRet)

\* The download of a model that is not cached, after the exists request.
DownloadModel(c, itemNo, rMeta, rBin, fs) ==
    LET r2 == <<"rotera/exists", "rotera/model">>
        r3 == <<"rotera/exists", "rotera/model", "modelUrl">> IN
    IF JsonKeyFailure(rMeta, "modelUrl") # "none"
    THEN Result(c, r2, "IkeaException", JsonKeyFailure(rMeta, "modelUrl"), NoRet)
    ELSE IF rBin.st # "ok"
    THEN Result(c, r3, "IkeaException", "request", NoRet)
    ELSE IF fs # "ok"
    THEN Result(WriteFile(c, itemNo, "model", rBin.body, fs), r3,
                "IkeaException", fs, NoRet)
    ELSE Result(WriteFile(c, itemNo, "model", rBin.body, fs), r3,
                "none", "none", [path |-> CachePath(itemNo, "model")])

GetModel(c, itemNo, rExists, rMeta, rBin, fs) ==
    IF ~Exists(c, itemNo, "model")
    THEN IF JsonKeyFailure(rExists, "exists") # "none"
         THEN Result(c, <<"rotera/exists">>, "IkeaException",
                     JsonKeyFailure(rExists, "exists"), NoRet)
         ELSE IF ~Loads(rExists.body).exists
         THEN Result(c, <<"rotera/exists">>, "IkeaException", "noexist", NoRet)
         ELSE DownloadModel(c, itemNo, rMeta, rBin, fs)
    ELSE Result(c, <<>>, "none", "none", [path |-> CachePath(itemNo, "model")])

----------------------------------------------------------------------------
(* IkeaApiWrapper.search *)

ResultFields == {"itemNo", "mainImageUrl", "mainImageAlt", "pipUrl"}

ProdArt(itemNo, url) ==
    [itemNo |-> itemNo, itemType |-> "ART", name |-> "n", mainImageUrl |-> url,
     mainImageAlt |-> "alt", pipUrl |-> "p/" \o itemNo]
ProdSpr ==
    [itemNo |-> "i1", itemType |-> "SPR", name |-> "n", mainImageUrl |-> "u1",
     mainImageAlt |-> "alt", pipUrl |-> "p/i1"]
ProdNoImage ==
    [itemNo |-> "i2", itemType |-> "ART", name |-> "n", mainImageAlt |-> "alt",
     pipUrl |-> "p/i2"]
ProdNoName ==
    [itemNo |-> "i2", itemType |-> "ART", mainImageUrl |-> "u2",
     mainImageAlt |-> "alt"]
ProdNoType ==
    [itemNo |-> "i1", name |-> "n", mainImageUrl |-> "u1", mainImageAlt |-> "alt",
     pipUrl |-> "p/i1"]

Products ==
    {ProdArt("i1", "u1"), ProdArt("i2", "u2"), ProdSpr, ProdNoImage, ProdNoName,
     ProdNoType}

ProductLists == UNION {[1..n -> Products] : n \in 0..MaxResults}

\* What the search endpoint may answer.
SearchResps ==
    {HttpError, HttpOk(RawBytes("html")), HttpOk(JsonText([message |-> "x"]))}
    \cup {HttpOk(JsonText([searchResultPage |-> ps])) : ps \in ProductLists}

\* The entry search appends for a valid product.
Entry(p) ==
    [itemNo |-> p["itemNo"], mainImageUrl |-> p["mainImageUrl"],
     mainImageAlt |-> p["mainImageAlt"], pipUrl |-> p["pipUrl"]]

\* The loop over the items of the response, from item k on, results so far
\* in acc.
RECURSIVE SearchLoop(_, _, _)
SearchLoop(items, k, acc) ==
    IF k > Len(items) THEN [exc |-> "none", ret |-> acc]
    ELSE LET p == items[k] IN
         IF "itemType" \notin DOMAIN p THEN [exc |-> "KeyError", ret |-> acc]
         ELSE IF p["itemType"] # "ART" THEN SearchLoop(items, k + 1, acc)
         ELSE IF ResultFields \subseteq DOMAIN p
         THEN SearchLoop(items, k + 1, Append(acc, Entry(p)))
         ELSE IF "name" \notin DOMAIN p THEN [exc |-> "KeyError", ret |-> acc]
         ELSE SearchLoop(items, k + 1, acc)

Search(c, resp) ==
    IF resp.st # "ok"
    THEN Result(c, <<"search">>, "IkeaException", "request", NoRet)
    ELSE IF ~Decodes(resp.body)
    THEN Result(c, <<"search">>, "IkeaException", "decode", NoRet)
    ELSE IF "searchResultPage" \notin DOMAIN Loads(resp.body)
    THEN Result(c, <<"search">>, "KeyError", "key", NoRet)
    ELSE LET r == SearchLoop(Loads(resp.body)["searchResultPage"], 1, <<>>) IN
         IF r.exc # "none"
         THEN Result(c, <<"search">>, r.exc, "key", NoRet)
         ELSE Result(c, <<"search">>, "none", "none", [list |-> r.ret])

----------------------------------------------------------------------------
(* The scene: bpy.data.objects and the active object *)

\* Most objects the scene holds after an import that is enumerated.
MaxObjects == 4
\* The same where objects are also deleted.
MaxEditObjects == 3

NoTag == "-"

Obj(type, parent, name, tag, loc, rot) ==
    [type |-> type, parent |-> parent, name |-> name, tag |-> tag,
     loc |-> loc, rot |-> rot]

Names(o) == {o[i].name : i \in DOMAIN o}

\* The name an object gets when `name` is assigned and `taken` are the names
\* of the other objects: names are unique, a taken name gets a suffix.
UniqueName(taken, name) ==
    IF name \notin taken THEN name
    ELSE LET k == CHOOSE k \in 1..(Cardinality(taken) + 1) :
                      /\ (name \o ".00" \o ToString(k)) \notin taken
                      /\ \A j \in 1..(k - 1) :
                             (name \o ".00" \o ToString(j)) \in taken
         IN name \o ".00" \o ToString(k)

\* obj.name = name
SetName(o, id, name) ==
    [o EXCEPT ![id].name =
        UniqueName({o[i].name : i \in DOMAIN o \ {id}}, name)]

\* bpy.data.objects.remove(obj): the object goes, its children lose their
\* parent.
Remove(o, id) ==
    [i \in DOMAIN o \ {id} |->
        IF o[i].parent = id THEN [o[i] EXCEPT !.parent = 0] ELSE o[i]]

RECURSIVE Descendants(_, _)
Descendants(o, p) ==
    LET kids == {i \in DOMAIN o : o[i].parent = p} IN
    kids \cup UNION {Descendants(o, c) : c \in kids}

\* Mutant: top.children, the direct children only.
ChildrenDirect(o, top) == {i \in DOMAIN o : o[i].parent = top}

\* top.children_recursive: the descendants of top, as a list made once.
ChildrenRecursive(o, top) == Descendants(o, top)

\* The orders in which a list of the objects in S may come.
Orders(S) ==
    {f \in [1..Cardinality(S) -> S] : \A i, j \in DOMAIN f : f[i] = f[j] => i = j}

\* while top.parent: top = top.parent
RECURSIVE TopOf(_, _)
TopOf(o, id) == IF o[id].parent = 0 THEN id ELSE TopOf(o, o[id].parent)

\* The scene keeps its objects by name. A handler holds references to
\* objects, which stay the same while names change: ById gives the objects
\* under ids 1..n, ByName the scene of the objects o.
ById(ob) ==
    LET n == Cardinality(DOMAIN ob)
        nm == CHOOSE f \in [1..n -> DOMAIN ob] :
                  \A i, j \in 1..n : f[i] = f[j] => i = j
        idOf(x) == CHOOSE i \in 1..n : nm[i] = x
    IN [i \in 1..n |->
           Obj(ob[nm[i]].type,
               IF ob[nm[i]].parent = "" THEN 0 ELSE idOf(ob[nm[i]].parent),
               nm[i], ob[nm[i]].tag, ob[nm[i]].loc, ob[nm[i]].rot)]

ByName(o) ==
    [x \in Names(o) |->
        LET i == CHOOSE i \in DOMAIN o : o[i].name = x IN
        [type |-> o[i].type,
         parent |-> IF o[i].parent = 0 THEN "" ELSE o[o[i].parent].name,
         tag |-> o[i].tag, loc |-> o[i].loc, rot |-> o[i].rot]]

\* The descendants of the object named p, by name.
RECURSIVE Below(_, _)
Below(ob, p) ==
    LET kids == {x \in DOMAIN ob : ob[x].parent = p} IN
    kids \cup UNION {Below(ob, c) : c \in kids}

\* context.object and context.object.get("ikeaItemNo")
Poll(ob, act) == act # "" /\ ob[act].tag # NoTag /\ ob[act].tag # ""

----------------------------------------------------------------------------
(* The importer (bpy.ops.wm.usd_import): the trees a model file may hold *)

Node(type, parent, name) == [type |-> type, parent |-> parent, name |-> name]

\* A single mesh; the mesh is active.
TreeSingle == [label |-> "single", nodes |-> <<Node("MESH", 0, "mesh")>>, active |-> 1]
\* A single mesh that the file names like the product.
TreeSingleNamed == [label |-> "named", nodes |-> <<Node("MESH", 0, "A")>>, active |-> 1]
\* Meshes under one Empty.
TreeFlat ==
    [label |-> "flat", nodes |-> <<Node("EMPTY", 0, "root"), Node("MESH", 1, "m1"),
                 Node("MESH", 1, "m2")>>,
     active |-> 2]
\* The tree of the comment in execute; the Meshes Empty is active.
TreeMulti ==
    [label |-> "multi", nodes |-> <<Node("EMPTY", 0, "root"), Node("EMPTY", 1, "Meshes"),
                 Node("MESH", 2, "m1"), Node("MESH", 2, "m2"),
                 Node("EMPTY", 1, "Materials")>>,
     active |-> 2]
\* Empties nested three deep, one mesh at the bottom; the mesh is active.
TreeNested ==
    [label |-> "nested", nodes |-> <<Node("EMPTY", 0, "root"), Node("EMPTY", 1, "e1"),
                 Node("EMPTY", 2, "e2"), Node("MESH", 3, "m1")>>,
     active |-> 4]

ModelTrees == {TreeSingle, TreeSingleNamed, TreeFlat, TreeMulti, TreeNested}

\* The objects of the tree that are left after the flattening.
Remaining(tree) ==
    Cardinality({k \in DOMAIN tree.nodes :
                    k = 1 \/ tree.nodes[k].type = "MESH"})

\* The n smallest ids not in used.
RECURSIVE FreshIds(_, _)
FreshIds(used, n) ==
    IF n = 0 THEN <<>>
    ELSE LET m == CHOOSE x \in 1..(Cardinality(used) + 1) :
                      x \notin used /\ \A y \in 1..(x - 1) : y \in used
         IN <<m>> \o FreshIds(used \cup {m}, n - 1)

\* The objects of the tree from node k on are created, node k under ids[k].
RECURSIVE AddNodes(_, _, _, _)
AddNodes(o, nodes, ids, k) ==
    IF k > Len(nodes) THEN o
    ELSE LET nd == nodes[k]
             new == Obj(nd.type, IF nd.parent = 0 THEN 0 ELSE ids[nd.parent],
                        UniqueName(Names(o), nd.name), NoTag, "file", "rotated")
         IN AddNodes(o @@ (ids[k] :> new), nodes, ids, k + 1)

----------------------------------------------------------------------------
(* IkeaImportOperator.execute, after the import *)

\* The flattening loop over the list order, from position k on.
RECURSIVE FlattenLoop(_, _, _, _)
FlattenLoop(o, top, order, k) ==
    IF k > Len(order) THEN o
    ELSE LET obj == order[k]
             o1 == IF o[obj].type = "MESH"
                   THEN [o EXCEPT ![obj].parent = top] ELSE o
             o2 == IF o1[obj].type = "EMPTY" THEN Remove(o1, obj) ELSE o1
         IN FlattenLoop(o2, top, order, k + 1)

\* Mutant: the loop runs over top.children_recursive, without top.
TagChildrenOnly(o, top, itemNo) ==
    [i \in DOMAIN o |->
        IF i \in ChildrenRecursive(o, top)
        THEN [o[i] EXCEPT !.tag = itemNo] ELSE o[i]]

\* for obj in [top] + top.children_recursive: obj["ikeaItemNo"] = itemNo
TagObjects(o, top, itemNo) ==
    [i \in DOMAIN o |->
        IF i \in {top} \cup ChildrenRecursive(o, top)
        THEN [o[i] EXCEPT !.tag = itemNo] ELSE o[i]]

\* while bpy.data.objects.get(maybe_name): maybe_name = f"{base_name} ({n+1})"
RECURSIVE DedupName(_, _, _, _)
DedupName(o, base_name, maybe_name, n) ==
    IF maybe_name \in Names(o)
    THEN DedupName(o, base_name,
                   base_name \o " (" \o ToString(n + 1) \o ")", n + 1)
    ELSE maybe_name

\* for n, obj in enumerate(top.children_recursive): obj.name = ...
RECURSIVE RenameChildren(_, _, _, _)
RenameChildren(o, top, order, k) ==
    IF k > Len(order) THEN o
    ELSE RenameChildren(
             SetName(o, order[k], o[top].name \o " Mesh " \o ToString(k)),
             top, order, k + 1)

\* transform_apply(rotation=True) on the selection (what the importer
\* created), then top.location = cursor.location.
ApplyAndPlace(o, top, made) ==
    [i \in DOMAIN o |->
        IF i = top THEN [o[i] EXCEPT !.rot = "applied", !.loc = "cursor"]
        ELSE IF i \in made THEN [o[i] EXCEPT !.rot = "applied"]
        ELSE o[i]]

\* Mutant: a failed get_model does not stop the import.
ShouldImportWithoutModel(rp, rm) == rp.exc = "none"

\* Whether execute goes on to the importer: get_pip and get_model returned.
ShouldImport(rp, rm) == rp.exc = "none" /\ rm.exc = "none"

----------------------------------------------------------------------------
(* Initial state: the add-on registered, _init run, nothing cached *)

NoCall ==
    [fn |-> "none", item |-> "-", url |-> "-", reqs |-> <<>>, exc |-> "none",
     cause |-> "none", ret |-> NoRet, hit |-> FALSE, memoed |-> FALSE]

\* The observation of a handler run, before the handler fills it in.
HBase(op, on) ==
    [op |-> op, online |-> on, item |-> "-", net |-> <<>>, exc |-> "none",
     fail |-> "none", reports |-> <<>>, result |-> "-", imported |-> FALSE,
     ran |-> FALSE, top |-> "", nMeshes |-> 0, made |-> {}, pipName |-> "-",
     tree |-> "-", raised |-> "none", loaded |-> FALSE, taken |-> {},
     resp |-> HttpError]

NoHandler == HBase("none", TRUE)

EmptyCache == [i \in Items |-> [f \in Files |-> Absent]]

Init ==
    /\ online = FALSE
    /\ country = "ie"
    /\ cache = EmptyCache
    /\ thumbs = {}
    /\ search_results = <<>>
    /\ objs = ByName(<<Obj("MESH", 0, "Cube", NoTag, "origin", "none")>>)
    /\ active = "Cube"
    /\ ev = [NoCall EXCEPT !.fn = "none"] @@ [before |-> EmptyCache]
    /\ memo = [i \in Items |-> [f \in Files |-> NoRet]]
    /\ hv = NoHandler

----------------------------------------------------------------------------
(* Direct calls of the wrapper's operations *)

FileOfFn(fn) ==
    CASE fn = "get_pip" -> "pip"
      [] fn = "get_thumbnail" -> "thumbnail"
      [] fn = "get_model" -> "model"

Getters == {"get_pip", "get_thumbnail", "get_model"}

\* Record the call fn(itemNo) with result r, and remember its result if it
\* is the first that returned for this file.
Observe(fn, itemNo, url, r) ==
    /\ cache' = r.cache
    /\ ev' = [fn |-> fn, item |-> itemNo, url |-> url, reqs |-> r.reqs,
              exc |-> r.exc, cause |-> r.cause, ret |-> r.ret,
              hit |-> Exists(cache, itemNo, FileOfFn(fn)),
              memoed |-> memo[itemNo][FileOfFn(fn)] # NoRet,
              before |-> cache]
    /\ memo' = IF r.exc = "none" /\ memo[itemNo][FileOfFn(fn)] = NoRet
               THEN [memo EXCEPT ![itemNo][FileOfFn(fn)] = r.ret]
               ELSE memo

LibFrame == UNCHANGED <<online, thumbs, search_results, objs, active, hv>>

\* fss: the file-system outcomes that are enumerated.
CallGetPip(fss) ==
    \E i \in Items, fs \in fss : \E resp \in PipResps(country, i) :
        /\ Observe("get_pip", i, "-", GetPip(cache, i, resp, fs))
        /\ UNCHANGED country /\ LibFrame

CallGetThumbnail(urls, fss) ==
    \E i \in Items, u \in urls, fs \in fss : \E resp \in ThumbResps(u) :
        /\ Observe("get_thumbnail", i, u, GetThumbnail(cache, i, resp, fs))
        /\ UNCHANGED country /\ LibFrame

\* The answers of the three model endpoints, later ones only where reached.
ModelEnvs(itemNo, fss) ==
    LET e0 == HttpOk(JsonText([exists |-> TRUE]))
        m0 == HttpOk(JsonText([modelUrl |-> "glb/" \o itemNo]))
        b0 == HttpOk(RawBytes("glb/" \o itemNo)) IN
    {<<e, m0, b0, "ok">> : e \in ExistsResps}
    \cup {<<e0, m, b0, "ok">> : m \in MetaResps(itemNo)}
    \cup {<<e0, m0, b, "ok">> : b \in BinResps(itemNo)}
    \cup {<<e0, m0, b0, fs>> : fs \in fss}

CallGetModel(fss) ==
    \E i \in Items : \E env \in ModelEnvs(i, fss) :
        /\ Observe("get_model", i, "-",
                   GetModel(cache, i, env[1], env[2], env[3], env[4]))
        /\ UNCHANGED country /\ LibFrame

CallSearch ==
    \E resp \in SearchResps :
        LET r == Search(cache, resp) IN
        /\ ev' = [fn |-> "search", item |-> "-", url |-> "-", reqs |-> r.reqs,
                  exc |-> r.exc, cause |-> r.cause, ret |-> r.ret,
                  hit |-> FALSE, memoed |-> FALSE, before |-> cache]
        /\ UNCHANGED <<country, cache, memo>> /\ LibFrame

\* The user or the system removes a cache file.
DeleteCacheFile ==
    \E i \in Items, f \in Files :
        /\ Exists(cache, i, f)
        /\ cache' = [cache EXCEPT ![i][f] = Absent]
        /\ memo' = [memo EXCEPT ![i][f] = NoRet]
        /\ ev' = NoCall @@ [before |-> cache]
        /\ UNCHANGED country /\ LibFrame

\* _init after a preference change: a new wrapper, the same cache_dir.
PrefsUpdate ==
    \E c \in Countries :
        /\ c # country
        /\ country' = c
        /\ UNCHANGED <<online, cache, thumbs, search_results, objs, active,
                       ev, memo, hv>>

\* The wrapper under one locale, with every file-system outcome.
LibNext ==
    \/ CallGetPip(FsOutcomes)
    \/ CallGetThumbnail({"u1"}, FsOutcomes)
    \/ CallGetModel(FsOutcomes)
    \/ DeleteCacheFile

SpecLib == Init /\ [][LibNext]_vars

\* The wrapper across preference changes, thumbnail URLs and searches.
PrefsNext ==
    \/ CallGetPip({"ok"})
    \/ CallGetThumbnail(Urls, {"ok"})
    \/ CallGetModel({"ok"})
    \/ CallSearch
    \/ PrefsUpdate

SpecPrefs == Init /\ [][PrefsNext]_vars

----------------------------------------------------------------------------
(* The add-on's handlers *)

\* The user switches bpy.app.online_access.
ToggleOnline ==
    /\ online' = ~online
    /\ hv' = HBase("toggle", TRUE)
    /\ UNCHANGED <<country, cache, thumbs, search_results, objs, active, ev,
                   memo>>

\* The user makes another object the active one.
SelectObject ==
    \E x \in DOMAIN objs :
        /\ x # active
        /\ active' = x
        /\ hv' = HBase("select", TRUE)
        /\ UNCHANGED <<online, country, cache, thumbs, search_results, objs,
                       ev, memo>>

\* The user deletes an object; its children stay, without a parent.
DeleteObject ==
    \E x \in DOMAIN objs :
        /\ objs' = [y \in DOMAIN objs \ {x} |->
                       IF objs[y].parent = x
                       THEN [objs[y] EXCEPT !.parent = ""] ELSE objs[y]]
        /\ active' = IF active = x THEN "" ELSE active
        /\ hv' = HBase("delete", TRUE)
        /\ UNCHANGED <<online, country, cache, thumbs, search_results, ev,
                       memo>>

\* The exception a handler lets through to the host: anything it does not
\* catch.
Escaping(exc) == IF exc = "IkeaException" THEN "none" ELSE exc

\* The answers to draw for a download: all of them when the file is not
\* cached, one (never read) when it is and nothing is requested.
AnswersIfAsked(c, itemNo, f, answers) ==
    IF Exists(c, itemNo, f) THEN {CHOOSE a \in answers : TRUE} ELSE answers

\* IkeaImportOperator.execute for an item of items, the model file holding
\* one of trees.
ImportExecute(items, trees, fss, cap) ==
    \E itemNo \in items :
        /\ UNCHANGED <<online, country, thumbs, search_results, ev, memo>>
        /\ IF ~online
           THEN /\ hv' = [HBase("import", online) EXCEPT
                              !.item = itemNo, !.fail = "offline",
                              !.reports = <<"ERROR">>, !.result = "CANCELLED"]
                /\ UNCHANGED <<cache, objs, active>>
           ELSE \E presp \in AnswersIfAsked(cache, itemNo, "pip",
                                              PipResps(country, itemNo)) :
                \E env \in AnswersIfAsked(cache, itemNo, "model",
                                           ModelEnvs(itemNo, fss)) :
                \E fs \in fss :
                LET rp == GetPip(cache, itemNo, presp, fs)
                    rm == GetModel(rp.cache, itemNo, env[1], env[2], env[3],
                                   env[4])
                    fail == IF rp.exc # "none" THEN "get_pip"
                            ELSE IF rm.exc # "none" THEN "get_model"
                            ELSE "none"
                    exc == IF rp.exc # "none" THEN rp.exc ELSE rm.exc
                    h0 == [HBase("import", online) EXCEPT
                               !.item = itemNo, !.fail = fail, !.raised = exc,
                               !.net = IF rp.exc # "none" THEN rp.reqs
                                       ELSE rp.reqs \o rm.reqs]
                IN
                /\ cache' = IF rp.exc # "none" THEN rp.cache ELSE rm.cache
                /\ IF ~ShouldImport(rp, rm)
                   THEN /\ hv' = [h0 EXCEPT
                                      !.exc = Escaping(exc),
                                      !.reports = IF exc = "IkeaException"
                                                  THEN <<"ERROR">> ELSE <<>>,
                                      !.result = IF exc = "IkeaException"
                                                 THEN "FINISHED" ELSE "-"]
                        /\ UNCHANGED <<objs, active>>
                   ELSE \E tree \in trees :
                        /\ Cardinality(DOMAIN objs) + Remaining(tree) <= cap
                        /\ LET o0 == ById(objs)
                               ids == FreshIds(DOMAIN o0, Len(tree.nodes))
                               made == {ids[k] : k \in DOMAIN ids}
                               o1 == AddNodes(o0, tree.nodes, ids, 1)
                               top == TopOf(o1, ids[tree.active])
                           IN
                           \E ord1 \in Orders(ChildrenRecursive(o1, top)) :
                           LET o2 == FlattenLoop(o1, top, ord1, 1)
                               o3 == TagObjects(o2, top, itemNo)
                               base_name == rp.ret.dict.name
                               o4 == SetName(o3, top,
                                       DedupName(o3, base_name, base_name, 1))
                           IN
                           \E ord2 \in Orders(ChildrenRecursive(o4, top)) :
                           LET o5 == RenameChildren(o4, top, ord2, 1)
                               o6 == ApplyAndPlace(o5, top, made)
                           IN
                           /\ objs' = ByName(o6)
                           /\ active' = o6[top].name
                           /\ hv' = [h0 EXCEPT
                                  !.imported = TRUE, !.ran = TRUE,
                                  !.result = "FINISHED",
                                  !.top = o6[top].name,
                                  !.made = {o6[i].name :
                                               i \in made \cap DOMAIN o6},
                                  !.nMeshes =
                                      Cardinality({d \in Descendants(o1, top) :
                                                      o1[d].type = "MESH"}),
                                  !.pipName = base_name,
                                  !.taken = Names(o3),
                                  !.tree = tree.label]

\* _update_search: the search text changed.
UpdateSearch(resps) ==
    \E resp \in IF online THEN resps ELSE {HttpError} :
        LET r == Search(cache, resp) IN
        /\ search_results' = IF ~online THEN <<>>
                             ELSE IF r.exc = "none" THEN r.ret.list
                             ELSE search_results
        /\ hv' = [HBase("update_search", online) EXCEPT
                      !.net = IF online THEN r.reqs ELSE <<>>,
                      !.exc = IF online THEN r.exc ELSE "none",
                      !.resp = resp]
        /\ UNCHANGED <<online, country, cache, thumbs, objs, active, ev, memo>>

\* Mutant: the online check is dropped.
GetThumbnailIconUnchecked(th, c, on, itemNo, resp) ==
    IF itemNo \notin th
    THEN LET r == GetThumbnail(c, itemNo, resp, "ok") IN
         [thumbs |-> IF r.exc = "none" THEN th \cup {itemNo} ELSE th,
          cache |-> r.cache, reqs |-> r.reqs, exc |-> r.exc]
    ELSE [thumbs |-> th, cache |-> c, reqs |-> <<>>, exc |-> "none"]

\* _get_thumbnail_icon(itemNo, url), resp the answer of the URL if asked.
GetThumbnailIcon(th, c, on, itemNo, resp) ==
    IF itemNo \notin th
    THEN IF ~on
         THEN [thumbs |-> th, cache |-> c, reqs |-> <<>>,
               exc |-> "IkeaException"]
         ELSE LET r == GetThumbnail(c, itemNo, resp, "ok") IN
              [thumbs |-> IF r.exc = "none" THEN th \cup {itemNo} ELSE th,
               cache |-> r.cache, reqs |-> r.reqs, exc |-> r.exc]
    ELSE [thumbs |-> th, cache |-> c, reqs |-> <<>>, exc |-> "none"]

\* What a thumbnail URL answers: ans is "ok" or "error".
ThumbAnswer(ans, url) == IF ans = "ok" THEN HttpOk(RawBytes(url)) ELSE HttpError

\* A direct call of _get_thumbnail_icon, whatever online_access is.
GetThumbnailIconCall ==
    \E itemNo \in Items, url \in Urls, ans \in {"ok", "error"} :
        LET g == GetThumbnailIcon(thumbs, cache, online, itemNo,
                                  ThumbAnswer(ans, url)) IN
        /\ thumbs' = g.thumbs
        /\ cache' = g.cache
        /\ hv' = [HBase("thumbnail_icon", online) EXCEPT
                      !.item = itemNo, !.net = g.reqs, !.exc = g.exc,
                      !.loaded = itemNo \in thumbs]
        /\ UNCHANGED <<online, country, search_results, objs, active, ev, memo>>

\* The loop of IkeaBrowserPanel.draw over search_results, from result k on.
RECURSIVE DrawLoop(_, _, _, _, _, _, _)
DrawLoop(th, c, on, results, k, ans, reqs) ==
    IF k > Len(results)
    THEN [thumbs |-> th, cache |-> c, reqs |-> reqs, exc |-> "none"]
    ELSE LET res == results[k] IN
         IF ~({"mainImageAlt", "itemNo", "mainImageUrl"} \subseteq DOMAIN res)
         THEN [thumbs |-> th, cache |-> c, reqs |-> reqs, exc |-> "KeyError"]
         ELSE LET g == GetThumbnailIcon(th, c, on, res["itemNo"],
                           ThumbAnswer(ans[res["itemNo"]], res["mainImageUrl"]))
              IN IF g.exc # "none"
                 THEN [thumbs |-> g.thumbs, cache |-> g.cache,
                       reqs |-> reqs \o g.reqs, exc |-> g.exc]
                 ELSE DrawLoop(g.thumbs, g.cache, on, results, k + 1, ans,
                               reqs \o g.reqs)

\* IkeaBrowserPanel.draw
BrowserPanelDraw ==
    /\ UNCHANGED <<online, country, search_results, objs, active, ev, memo>>
    /\ IF ~online
       THEN /\ hv' = HBase("browser_draw", online)
            /\ UNCHANGED <<cache, thumbs>>
       ELSE \E ans \in [Items -> {"ok", "error"}] :
            LET r == DrawLoop(thumbs, cache, online, search_results, 1, ans,
                              <<>>) IN
            /\ thumbs' = r.thumbs
            /\ cache' = r.cache
            /\ hv' = [HBase("browser_draw", online) EXCEPT
                          !.net = r.reqs, !.exc = r.exc]

\* IkeaProductPanel.draw, which the host calls when poll holds.
ProductPanelDraw ==
    /\ Poll(objs, active)
    /\ UNCHANGED <<online, country, search_results, objs, active, ev, memo>>
    /\ LET itemNo == objs[active].tag IN
       IF ~online
       THEN /\ hv' = [HBase("product_draw", online) EXCEPT !.item = itemNo]
            /\ UNCHANGED <<cache, thumbs>>
       ELSE \E presp \in AnswersIfAsked(cache, itemNo, "pip",
                                        PipResps(country, itemNo)) :
            \E ans \in {"ok", "error"} :
            LET rp == GetPip(cache, itemNo, presp, "ok")
                h0 == [HBase("product_draw", online) EXCEPT !.item = itemNo]
            IN
            IF rp.exc # "none"
            THEN /\ cache' = rp.cache
                 /\ hv' = [h0 EXCEPT !.net = rp.reqs, !.exc = rp.exc]
                 /\ UNCHANGED thumbs
            ELSE LET g == GetThumbnailIcon(thumbs, rp.cache, online, itemNo,
                              ThumbAnswer(ans, rp.ret.dict.mainImage)) IN
                 /\ cache' = g.cache
                 /\ thumbs' = g.thumbs
                 /\ hv' = [h0 EXCEPT !.net = rp.reqs \o g.reqs, !.exc = g.exc]

\* The scene under imports of every tree.
SceneNext ==
    \/ ToggleOnline
    \/ ImportExecute(Items, ModelTrees, {"ok"}, MaxObjects)
    \/ SelectObject

SpecScene == Init /\ [][SceneNext]_vars

\* The scene under imports and deletions.
EditNext ==
    \/ ToggleOnline
    \/ ImportExecute(Items, ModelTrees, {"ok"}, MaxEditObjects)
    \/ DeleteObject

SpecEdit == Init /\ [][EditNext]_vars

\* The searches the panels are run with.
PanelSearchResps ==
    {HttpError,
     HttpOk(JsonText([searchResultPage |-> <<ProdArt("i1", "u1")>>])),
     HttpOk(JsonText([searchResultPage |-> <<ProdSpr, ProdArt("i1", "u1")>>]))}

\* The add-on's handlers, in any order, with online access switched at will.
Next ==
    \/ ToggleOnline
    \/ UpdateSearch(PanelSearchResps)
    \/ BrowserPanelDraw
    \/ ProductPanelDraw
    \/ ImportExecute({"i1"}, {TreeSingle}, {"ok"}, MaxObjects)
    \/ GetThumbnailIconCall
    \/ SelectObject

Spec == Init /\ [][Next]_vars

\* Searches with every response, and the browser panel.
SearchNext ==
    \/ ToggleOnline
    \/ UpdateSearch(SearchResps)
    \/ BrowserPanelDraw

SpecSearch == Init /\ [][SearchNext]_vars

----------------------------------------------------------------------------
(* Claims about the wrapper *)

\* C1: once get_pip, get_thumbnail or get_model has returned for an item, and
\* the cache file was not deleted since, every later call of the same
\* operation for that item makes no request and returns the same result,
\* whatever was called for other items in between.
C1_Memoization ==
    (ev.fn \in Getters /\ ev.memoed) =>
        /\ ev.reqs = <<>>
        /\ ev.exc = "none"
        /\ ev.ret = memo[ev.item][FileOfFn(ev.fn)]

C1_Witness ==
    /\ ev.fn = "get_pip" /\ ev.item = "i1" /\ ev.memoed
    /\ ev.ret = [dict |-> PipData("ie", "i1")]
    /\ memo["i2"]["model"] # NoRet
    /\ memo["i2"]["pip"] # NoRet

\* C2: every exception that escapes search, get_pip, get_thumbnail or
\* get_model is an IkeaException, and no endpoint is requested twice within
\* one call.
C2_OnlyIkeaException ==
    /\ ev.exc \in {"none", "IkeaException"}
    /\ \A j, k \in 1..Len(ev.reqs) : ev.reqs[j] = ev.reqs[k] => j = k

\* C8: a cached file is looked up by item number alone: a call that finds
\* the file makes no request, leaves the cache as it is and returns the
\* cached entry, whatever the wrapper's country is now and whatever
\* thumbnail URL is passed.
C8_KeyIsItemNo ==
    (/\ ev.fn \in Getters /\ ev.hit
     /\ ev.before[ev.item][FileOfFn(ev.fn)].st = "file") =>
        /\ ev.reqs = <<>>
        /\ ev.exc = "none"
        /\ cache = ev.before
        /\ ev.ret = IF ev.fn = "get_pip"
                    THEN [dict |-> Loads(ev.before[ev.item]["pip"].data)]
                    ELSE [path |-> CachePath(ev.item, FileOfFn(ev.fn))]

C8_Witness ==
    /\ ev.fn = "get_pip" /\ ev.hit /\ ev.exc = "none"
    /\ ev.ret.dict.locale # country
    /\ cache[ev.item]["thumbnail"].st = "file"
    /\ cache[ev.item]["model"].st = "file"

\* The failures of a fetch: the request, the decoding of the answer, a key
\* missing in it, the exists endpoint answering false.
FetchFailures == {"request", "decode", "key", "noexist"}

\* C9: when a fetch fails, the cache file of that operation and item does
\* not exist afterwards, every other cache file is as before, and after
\* exists = false no further request was made.
C9_NoPoison ==
    (ev.fn \in Getters /\ ev.exc # "none" /\ ev.cause \in FetchFailures) =>
        /\ cache[ev.item][FileOfFn(ev.fn)] = Absent
        /\ \A i \in Items, f \in Files :
               <<i, f>> # <<ev.item, FileOfFn(ev.fn)>> =>
                   cache[i][f] = ev.before[i][f]
        /\ ev.cause = "noexist" => ev.reqs = <<"rotera/exists">>

C9_Witness ==
    /\ ev.fn = "get_model" /\ ev.item = "i1" /\ ev.cause = "request"
    /\ Len(ev.reqs) = 3
    /\ cache["i1"]["pip"].st = "file"
    /\ cache["i2"]["model"].st = "file"

----------------------------------------------------------------------------
(* Claims about the add-on *)

\* C3: no handler makes a network request while online access is off, and
\* _get_thumbnail_icon for a thumbnail that is not loaded raises
\* IkeaException then.
C3_NoNetworkOffline ==
    /\ hv.net # <<>> => hv.online
    /\ (hv.op = "thumbnail_icon" /\ ~hv.online /\ ~hv.loaded) =>
           hv.exc = "IkeaException"

C3_Witness ==
    /\ hv.op = "thumbnail_icon" /\ ~hv.online /\ ~hv.loaded
    /\ hv.exc = "IkeaException"
    /\ search_results # <<>>
    /\ \E x \in DOMAIN objs : objs[x].tag = "i1"
    /\ ~Exists(cache, hv.item, "thumbnail")

\* C4: after a successful import of item i the top-level object and every
\* object below it carry ikeaItemNo = i, so poll holds for each of them,
\* and the objects that were in the scene before keep their ikeaItemNo.
C4_Tagging ==
    [][(hv'.op = "import" /\ hv'.imported) =>
          /\ \A x \in {hv'.top} \cup Below(objs', hv'.top) :
                 objs'[x].tag = hv'.item /\ Poll(objs', x)
          /\ \A x \in DOMAIN objs :
                 x \in DOMAIN objs' /\ objs'[x].tag = objs[x].tag]_vars

C4_Witness ==
    /\ hv.op = "import" /\ hv.imported /\ hv.item = "i1"
    /\ Below(objs, hv.top) # {}
    /\ \E x \in DOMAIN objs : objs[x].tag = "i2"
    /\ \E x \in DOMAIN objs : objs[x].tag = NoTag

\* C5: after a successful import every mesh that was below the top-level
\* object is a direct child of it, none was lost, and no Empty is left
\* below the top-level object.
C5_Flattening ==
    hv.imported =>
        /\ hv.made \subseteq DOMAIN objs
        /\ \A x \in hv.made \ {hv.top} :
               objs[x].type = "MESH" /\ objs[x].parent = hv.top
        /\ Cardinality(hv.made \ {hv.top}) = hv.nMeshes
        /\ \A x \in Below(objs, hv.top) : objs[x].type # "EMPTY"

C5_Witness ==
    /\ hv.imported /\ hv.tree = "multi"
    /\ Cardinality({x \in DOMAIN objs : objs[x].parent = hv.top}) = 2

\* The name the claim gives the top-level object: N if no object had it,
\* otherwise "N (k)" for the smallest k >= 2 that no object had.
ExpectedTopName(taken, N) ==
    IF N \notin taken THEN N
    ELSE LET free(k) == (N \o " (" \o ToString(k) \o ")") \notin taken
             k == CHOOSE k \in 2..(Cardinality(taken) + 2) :
                      free(k) /\ \A j \in 2..(k - 1) : ~free(j)
         IN N \o " (" \o ToString(k) \o ")"

\* C6: after a successful import of a product whose PIP name is N the
\* top-level object is named N if no object in bpy.data.objects had that
\* name, otherwise "N (k)" for the smallest k >= 2 that no object had; its m
\* children are named "<top name> Mesh 1" .. "<top name> Mesh m"; and the
\* import into a scene with no object named N is named exactly N.
C6_Naming ==
    [][(hv'.op = "import" /\ hv'.imported) =>
          /\ hv'.top = ExpectedTopName(hv'.taken, hv'.pipName)
          /\ Below(objs', hv'.top) =
                 {hv'.top \o " Mesh " \o ToString(j) :
                     j \in 1..Cardinality(Below(objs', hv'.top))}
          /\ hv'.pipName \notin DOMAIN objs => hv'.top = hv'.pipName]_vars

\* C7: when execute does not import (online access off, or get_pip or
\* get_model raised IkeaException) it reports one ERROR, raises nothing,
\* never runs the importer and leaves the objects and the active object as
\* they were.
C7_FailureHandling ==
    [][(/\ hv'.op = "import"
        /\ hv'.fail = "offline" \/ hv'.raised = "IkeaException"
        /\ hv'.fail # "none") =>
          /\ hv'.reports = <<"ERROR">>
          /\ hv'.exc = "none"
          /\ ~hv'.ran
          /\ objs' = objs
          /\ active' = active]_vars

C7_Witness ==
    /\ hv.op = "import" /\ hv.fail = "get_model" /\ hv.reports = <<"ERROR">>
    /\ Cardinality(DOMAIN objs) >= 2
    /\ active # ""

\* The entries the claim gives search_results for a list of products.
RECURSIVE ExpectedResults(_)
ExpectedResults(ps) ==
    IF ps = <<>> THEN <<>>
    ELSE LET p == Head(ps)
             keep == /\ "itemType" \in DOMAIN p
                     /\ p["itemType"] = "ART"
                     /\ ResultFields \subseteq DOMAIN p
         IN (IF keep THEN <<[f \in ResultFields |-> p[f]]>> ELSE <<>>)
            \o ExpectedResults(Tail(ps))

\* C10: every entry of search_results has exactly the four keys; after a
\* search-text update search_results holds, in response order, the ART
\* products of the response that have all four fields, the others being
\* skipped without an error, and it is empty after an update with online
\* access off; the browser panel never reads a missing key.
C10_SearchResults ==
    /\ \A k \in 1..Len(search_results) :
           DOMAIN search_results[k] = ResultFields
    /\ (hv.op = "update_search" /\ ~hv.online) => search_results = <<>>
    /\ (/\ hv.op = "update_search" /\ hv.online
        /\ hv.resp.st = "ok" /\ Decodes(hv.resp.body)
        /\ "searchResultPage" \in DOMAIN Loads(hv.resp.body)) =>
           /\ hv.exc = "none"
           /\ search_results =
                  ExpectedResults(Loads(hv.resp.body)["searchResultPage"])
    /\ hv.op = "browser_draw" => hv.exc # "KeyError"

====
